---- MODULE Spec2Model ----
(***************************************************************************)
(* Model of the ale.aos collection: the aos_command module's wait_for /    *)
(* retry loop (plugins/modules/aos_command.py), the module-side facade     *)
(* (plugins/module_utils/network/aos/aos.py) and the cliconf plugin        *)
(* (plugins/cliconf/aos.py).                                               *)
(*                                                                         *)
(* A text is a sequence of tokens; the blank is the token " ", so that     *)
(* "%s " % x, " ".join(...) and strip() are modelled by what they do.      *)
(***************************************************************************)
EXTENDS Integers, Sequences, FiniteSets, TLC

\* ------------------------------------------------------------------ bounds
MaxRetries == 2
MaxConds == 2

\* ------------------------------------------------------------------ texts
SP == " "
None == "None"

ShowVlan == <<"show", SP, "vlan">>
ClearCounters == <<"clear", SP, "counters">>
ShowLog == <<"showlog">>

\* str.startswith("show") of aos_command.py:387, on the tokens of the model:
\* a text starts with "show" iff its first token does.
StartsWithShow(text) == Len(text) > 0 /\ Head(text) \in {"show", "showlog"}

\* ------------------------------------------------------------------ helpers
RECURSIVE SeqsUpTo(_, _)
SeqsUpTo(S, n) ==
    IF n = 0 THEN {<<>>}
    ELSE LET shorter == SeqsUpTo(S, n - 1)
         IN shorter \cup {Append(s, x) : s \in {t \in shorter : Len(t) = n - 1}, x \in S}

\* list.remove(x): drops the first element equal to x
RECURSIVE RemoveFirst(_, _)
RemoveFirst(s, x) ==
    IF s = <<>> THEN <<>>
    ELSE IF Head(s) = x THEN Tail(s)
    ELSE <<Head(s)>> \o RemoveFirst(Tail(s), x)

\* ------------------------------------------------------------------ inputs
\* entries of module.params["commands"] after transform_commands: output has no
\* default, version defaults to "latest"
CmdShowVlan == [command |-> ShowVlan, output |-> "json", version |-> "latest"]
CmdClearCounters == [command |-> ClearCounters, output |-> None, version |-> "latest"]
CmdShowLog == [command |-> ShowLog, output |-> None, version |-> "latest"]

\* the command lists a run is started with
CommandLists ==
    { <<>>,
      <<CmdShowVlan>>,
      <<CmdClearCounters>>,
      <<CmdShowVlan, CmdClearCounters>>,
      <<CmdClearCounters, CmdShowVlan>>,
      <<CmdClearCounters, CmdClearCounters>>,
      <<CmdShowLog, CmdShowVlan>>,
      <<CmdShowVlan, CmdShowVlan>>,
      <<CmdClearCounters, CmdShowVlan, CmdClearCounters>>,
      <<CmdShowLog, CmdClearCounters, CmdShowVlan>> }

RespVals == {0, 1}
ErrTexts == {"connection timed out"}
UnsatisfiedMsg == "One or more conditional statements have not been satisfied"

\* a wait_for expression "result[key] eq value" (key is 1-based in the model)
WaitForSet(n) == {[key |-> k, value |-> 1] : k \in 1..n}

\* malformed wait_for expressions: "result[0] is 1" and "result[0] eq '1"
MalformedSet ==
    { [key |-> 1, value |-> 1, error |-> "AttributeError"],
      [key |-> 1, value |-> 1, error |-> "ValueError"] }
UnknownOperatorMsg == "unknown operator: is"

VARIABLES
    pc,             \* position of main()
    check_mode,     \* module.check_mode
    params,         \* module.params: commands, wait_for, match, retries
    commands,       \* main's commands
    warnings,       \* main's warnings
    conditionals,   \* main's conditionals (the pending set)
    retries,        \* main's retries
    responses,      \* main's responses: [bound, val]
    sent,           \* batches handed to the transport, one per attempt
    history,        \* responses received, one per successful attempt
    evaluated,      \* per evaluated attempt, the ids of the conditionals called
    sleeps,         \* number of time.sleep(interval) calls
    result,         \* what the module reported: exit_json / fail_json
    cc_pc,          \* Cliconf: "idle", or "returned" when a call has ended
    cc_call,        \* Cliconf: the method called and its arguments
    cc_sent,        \* Cliconf: the texts the call handed to send_command, in order
    cc_outcome,     \* Cliconf: what the call returned or raised
    cc_device_info, \* Cliconf._device_info
    cc_info_history,\* Cliconf: the get_device_info calls so far: [sent, outcome]
    cli_device_configs, \* Cli._device_configs: a set of [cmd, cfg]
    cli_warnings,   \* Cli: the warnings of its module
    cli_history,    \* Cli: the calls so far
    ut_pc,          \* utils: "idle", or "returned" when a call has ended
    ut_call,        \* utils: the function called and its argument
    ut_result       \* utils: the list it returned

mainVars == <<pc, check_mode, params, commands, warnings, conditionals, retries,
              responses, sent, history, evaluated, sleeps, result>>
ccVars == <<cc_pc, cc_call, cc_sent, cc_outcome>>
infoVars == <<cc_device_info, cc_info_history>>
cliVars == <<cli_device_configs, cli_warnings, cli_history>>
utilVars == <<ut_pc, ut_call, ut_result>>
vars == <<mainVars, ccVars, infoVars, cliVars, utilVars>>

NoResult == [kind |-> "none"]

\* ------------------------------------------------------------------ parse_commands
\* the loop body of parse_commands for the items of the copy list(commands)
RECURSIVE FilterLoop(_, _, _)
FilterLoop(copy, cmds, warns) ==
    IF copy = <<>> THEN [commands |-> cmds, warnings |-> warns]
    ELSE LET item == Head(copy)
         IN IF ~StartsWithShow(item.command)
            THEN FilterLoop(Tail(copy), RemoveFirst(cmds, item),
                            Append(warns, item.command))
            ELSE FilterLoop(Tail(copy), cmds, warns)

\* mutant: the loop runs over the list it removes from (for item in commands),
\* so the element after a removed one is skipped
RECURSIVE FilterLive(_, _, _)
FilterLive(i, cmds, warns) ==
    IF i > Len(cmds) THEN [commands |-> cmds, warnings |-> warns]
    ELSE IF ~StartsWithShow(cmds[i].command)
         THEN FilterLive(i + 1, RemoveFirst(cmds, cmds[i]), Append(warns, cmds[i].command))
         ELSE FilterLive(i + 1, cmds, warns)

parse_commands_live(cmds, check, warns) ==
    IF check THEN FilterLive(1, cmds, warns)
    ELSE [commands |-> cmds, warnings |-> warns]

parse_commands(cmds, check, warns) ==
    IF check THEN FilterLoop(cmds, cmds, warns)
    ELSE [commands |-> cmds, warnings |-> warns]

\* ------------------------------------------------------------------ to_command
\* ComplexList with output default "text"
to_command(cmds) ==
    [i \in 1..Len(cmds) |->
        [cmds[i] EXCEPT !.output = IF @ = None THEN "text" ELSE @]]

\* ------------------------------------------------------------------ Conditional
\* Conditional(c): an object with identity, the source text in .raw
Conditional(i, c) == [id |-> i, raw |-> c]

\* what Conditional(c) raises: nothing for an expression of the grammar, and for
\* a malformed one AttributeError (unknown operator) or ValueError (no parse)
ConditionalError(c) == IF "error" \in DOMAIN c THEN c.error ELSE None

\* mutant: the expressions are not parsed before the loop
NoParseError(wait_for) == None

\* [Conditional(c) for c in wait_for]: what the first malformed expression raises
FirstParseError(wait_for) ==
    LET bad == {i \in 1..Len(wait_for) : ConditionalError(wait_for[i]) # None}
    IN IF bad = {} THEN None
       ELSE ConditionalError(wait_for[CHOOSE i \in bad : \A j \in bad : i <= j])

\* item(responses)
Holds(item, resp) ==
    /\ item.raw.key \in 1..Len(resp)
    /\ resp[item.raw.key] = item.raw.value

\* the for loop of main over list(conditionals)
RECURSIVE EvalLoop(_, _, _, _)
EvalLoop(copy, conds, resp, match) ==
    IF copy = <<>> THEN [conditionals |-> conds, called |-> {}]
    ELSE LET item == Head(copy)
         IN IF Holds(item, resp)
            THEN IF match = "any"
                 THEN [conditionals |-> <<>>, called |-> {item.id}]
                 ELSE LET rest == EvalLoop(Tail(copy), RemoveFirst(conds, item), resp, match)
                      IN [rest EXCEPT !.called = @ \cup {item.id}]
            ELSE LET rest == EvalLoop(Tail(copy), conds, resp, match)
                 IN [rest EXCEPT !.called = @ \cup {item.id}]

\* mutant: the loop runs over the list it removes from (for item in conditionals)
RECURSIVE EvalLive(_, _, _, _)
EvalLive(i, conds, resp, match) ==
    IF i > Len(conds) THEN [conditionals |-> conds, called |-> {}]
    ELSE LET item == conds[i]
         IN IF Holds(item, resp)
            THEN IF match = "any"
                 THEN [conditionals |-> <<>>, called |-> {item.id}]
                 ELSE LET rest == EvalLive(i + 1, RemoveFirst(conds, item), resp, match)
                      IN [rest EXCEPT !.called = @ \cup {item.id}]
            ELSE LET rest == EvalLive(i + 1, conds, resp, match)
                 IN [rest EXCEPT !.called = @ \cup {item.id}]

EvalConditionalsLive(conds, resp, match) == EvalLive(1, conds, resp, match)

\* mutant: match is ignored, "all" is treated like "any"
EvalConditionalsAllAsAny(conds, resp, match) == EvalLoop(conds, conds, resp, "any")

\* mutant: match is ignored, "any" is treated like "all"
EvalConditionalsAnyAsAll(conds, resp, match) == EvalLoop(conds, conds, resp, "all")

EvalConditionals(conds, resp, match) == EvalLoop(conds, conds, resp, match)

\* mutant: one attempt too many
LoopCondOffByOne(r) == r >= -1

\* while retries >= 0
LoopCond(r) == r >= 0

\* mutant: the pending conditionals are reported in reverse order
FailedConditionsReversed(conds) == [i \in 1..Len(conds) |-> conds[Len(conds) + 1 - i].raw]

\* failed_conditions = [item.raw for item in conditionals]
FailedConditions(conds) == [i \in 1..Len(conds) |-> conds[i].raw]

\* the Cliconf object with no call in progress
CliconfIdle ==
    /\ cc_pc = "idle"
    /\ cc_call = [op |-> "none"]
    /\ cc_sent = <<>>
    /\ cc_outcome = [kind |-> "none"]

\* the _device_info of Cliconf.__init__: {}, a mapping without values (a key
\* without value holds None; the image, a text of three parts, holds <<>>)
NoDeviceInfo ==
    [network_os |-> None, network_os_version |-> None, network_os_image |-> <<>>,
     network_os_model |-> None, network_os_hostname |-> None]

InfoIdle ==
    /\ cc_device_info = NoDeviceInfo
    /\ cc_info_history = <<>>

\* Cli.__init__
CliIdle ==
    /\ cli_device_configs = {}
    /\ cli_warnings = <<>>
    /\ cli_history = <<>>

\* utils: no call in progress
UtilsIdle ==
    /\ ut_pc = "idle"
    /\ ut_call = [op |-> "none"]
    /\ ut_result = <<>>

\* ------------------------------------------------------------------ main
Init ==
    /\ pc = "parse"
    /\ check_mode \in BOOLEAN
    /\ \E cmds \in CommandLists, m \in {"all", "any"}, r \in -1..MaxRetries :
         \E wf \in SeqsUpTo(WaitForSet(Len(parse_commands(cmds, check_mode, <<>>).commands)),
                            MaxConds) :
            params = [commands |-> cmds, wait_for |-> wf, match |-> m, retries |-> r]
    /\ commands = <<>>
    /\ warnings = <<>>
    /\ conditionals = <<>>
    /\ retries = 0
    /\ responses = [bound |-> FALSE, val |-> <<>>]
    /\ sent = <<>>
    /\ history = <<>>
    /\ evaluated = <<>>
    /\ sleeps = 0
    /\ result = NoResult
    /\ CliconfIdle
    /\ InfoIdle
    /\ CliIdle
    /\ UtilsIdle

\* lines 406-417: parse_commands, the conditionals, the parameters
Setup ==
    /\ pc = "parse"
    /\ LET p == parse_commands(params.commands, check_mode, <<>>)
           err == FirstParseError(params.wait_for)
       IN /\ commands' = p.commands
          /\ warnings' = p.warnings
          /\ IF err = None
             THEN /\ conditionals' = [i \in 1..Len(params.wait_for) |->
                                         Conditional(i, params.wait_for[i])]
                  /\ retries' = params.retries
                  /\ pc' = "while"
                  /\ UNCHANGED result
             ELSE /\ result' = IF err = "AttributeError"
                               THEN [kind |-> "fail_json", msg |-> UnknownOperatorMsg]
                               ELSE [kind |-> err]
                  /\ pc' = "done"
                  /\ UNCHANGED <<conditionals, retries>>
    /\ UNCHANGED <<check_mode, params, responses, sent, history, evaluated, sleeps,
                   ccVars, infoVars, cliVars, utilVars>>

\* mutant: a retry sends only the commands a pending conditional refers to
RECURSIVE KeepReferred(_, _, _)
KeepReferred(i, cmds, conds) ==
    IF i > Len(cmds) THEN <<>>
    ELSE (IF \E j \in 1..Len(conds) : conds[j].raw.key = i THEN <<cmds[i]>> ELSE <<>>)
         \o KeepReferred(i + 1, cmds, conds)

BatchOfPending ==
    IF sent = <<>> THEN to_command(commands)
    ELSE to_command(KeepReferred(1, commands, conditionals))

\* run_commands(module, commands): the batch of an attempt is to_command(commands)
Batch == to_command(commands)

\* line 419, the transport answers
RunCommandsOk ==
    /\ pc = "while"
    /\ LoopCond(retries)
    /\ \E resp \in [1..Len(commands) -> RespVals] :
         /\ responses' = [bound |-> TRUE, val |-> resp]
         /\ history' = Append(history, resp)
    /\ sent' = Append(sent, Batch)
    /\ pc' = "eval"
    /\ UNCHANGED <<check_mode, params, commands, warnings, conditionals, retries,
                   evaluated, sleeps, result,
                   ccVars, infoVars, cliVars, utilVars>>

\* mutant: the connection error is caught and the loop goes on to the next attempt
RunCommandsFailSwallowed ==
    /\ pc = "while"
    /\ LoopCond(retries)
    /\ sent' = Append(sent, Batch)
    /\ pc' = "sleep"
    /\ UNCHANGED <<check_mode, params, commands, warnings, conditionals, retries,
                   responses, history, evaluated, sleeps, result,
                   ccVars, infoVars, cliVars, utilVars>>

\* line 419, the transport raises ConnectionError: Cli.run_commands calls fail_json
RunCommandsFail ==
    /\ pc = "while"
    /\ LoopCond(retries)
    /\ sent' = Append(sent, Batch)
    /\ \E e \in ErrTexts : result' = [kind |-> "fail_json", msg |-> e]
    /\ pc' = "done"
    /\ UNCHANGED <<check_mode, params, commands, warnings, conditionals, retries,
                   responses, history, evaluated, sleeps,
                   ccVars, infoVars, cliVars, utilVars>>

\* lines 420-427
Evaluate ==
    /\ pc = "eval"
    /\ LET e == EvalConditionals(conditionals, responses.val, params.match)
       IN /\ conditionals' = e.conditionals
          /\ evaluated' = Append(evaluated, e.called)
          /\ pc' = IF e.conditionals = <<>> THEN "after" ELSE "sleep"
    /\ UNCHANGED <<check_mode, params, commands, warnings, retries, responses,
                   sent, history, sleeps, result,
                   ccVars, infoVars, cliVars, utilVars>>

\* lines 428-429
Sleep ==
    /\ pc = "sleep"
    /\ sleeps' = sleeps + 1
    /\ retries' = retries - 1
    /\ pc' = "while"
    /\ UNCHANGED <<check_mode, params, commands, warnings, conditionals, responses,
                   sent, history, evaluated, result,
                   ccVars, infoVars, cliVars, utilVars>>

\* line 418, the loop condition is false
LoopExit ==
    /\ pc = "while"
    /\ ~LoopCond(retries)
    /\ pc' = "after"
    /\ UNCHANGED <<check_mode, params, commands, warnings, conditionals, retries,
                   responses, sent, history, evaluated, sleeps, result,
                   ccVars, infoVars, cliVars, utilVars>>

\* mutant: the responses of all attempts are merged into stdout
RECURSIVE Merged(_)
Merged(h) == IF h = <<>> THEN <<>> ELSE Head(h) \o Merged(Tail(h))

ExitResultMerged(resp, warns) ==
    [kind |-> "exit_json", stdout |-> Merged(history), warnings |-> warns]

\* lines 434-435: result.update({"stdout": responses, ...}); exit_json(**result)
ExitResult(resp, warns) ==
    [kind |-> "exit_json", stdout |-> resp, warnings |-> warns]

\* lines 430-435
Report ==
    /\ pc = "after"
    /\ result' =
         IF conditionals # <<>>
         THEN [kind |-> "fail_json", msg |-> UnsatisfiedMsg,
               failed_conditions |-> FailedConditions(conditionals)]
         ELSE IF ~responses.bound
         THEN [kind |-> "UnboundLocalError"]
         ELSE ExitResult(responses.val, warnings)
    /\ pc' = "done"
    /\ UNCHANGED <<check_mode, params, commands, warnings, conditionals, retries,
                   responses, sent, history, evaluated, sleeps,
                   ccVars, infoVars, cliVars, utilVars>>

Next ==
    \/ Setup
    \/ RunCommandsOk
    \/ RunCommandsFail
    \/ Evaluate
    \/ Sleep
    \/ LoopExit
    \/ Report

Spec == Init /\ [][Next]_vars

\* a run whose wait_for may hold malformed expressions
InitWaitFor ==
    /\ pc = "parse"
    /\ check_mode \in BOOLEAN
    /\ \E cmds \in CommandLists, m \in {"all", "any"}, r \in -1..MaxRetries :
         \E wf \in SeqsUpTo(WaitForSet(Len(parse_commands(cmds, check_mode, <<>>).commands))
                               \cup MalformedSet,
                            MaxConds) :
            params = [commands |-> cmds, wait_for |-> wf, match |-> m, retries |-> r]
    /\ commands = <<>>
    /\ warnings = <<>>
    /\ conditionals = <<>>
    /\ retries = 0
    /\ responses = [bound |-> FALSE, val |-> <<>>]
    /\ sent = <<>>
    /\ history = <<>>
    /\ evaluated = <<>>
    /\ sleeps = 0
    /\ result = NoResult
    /\ CliconfIdle
    /\ InfoIdle
    /\ CliIdle
    /\ UtilsIdle

SpecWaitFor == InitWaitFor /\ [][Next]_vars

\* ------------------------------------------------------------------ text operations
\* str.strip(), " ".join(list), str.endswith(suffix), sub in text
RECURSIVE LStrip(_)
LStrip(t) == IF t # <<>> /\ Head(t) = SP THEN LStrip(Tail(t)) ELSE t

RECURSIVE RStrip(_)
RStrip(t) == IF t # <<>> /\ t[Len(t)] = SP THEN RStrip(SubSeq(t, 1, Len(t) - 1)) ELSE t

Strip(t) == RStrip(LStrip(t))

RECURSIVE Join(_)
Join(list) ==
    IF list = <<>> THEN <<>>
    ELSE IF Len(list) = 1 THEN list[1]
    ELSE list[1] \o <<SP>> \o Join(Tail(list))

EndsWith(t, suffix) ==
    Len(t) >= Len(suffix) /\ SubSeq(t, Len(t) - Len(suffix) + 1, Len(t)) = suffix

Contains(t, sub) ==
    \E i \in 1..(Len(t) - Len(sub) + 1) : SubSeq(t, i, i + Len(sub) - 1) = sub

PipeJson == <<"|", SP, "json">>

\* ------------------------------------------------------------------ Cliconf
\* Cliconf.get_option_values
get_option_values ==
    [format |-> {"text", "json"},
     diff_match |-> {"line", "strict", "exact", "none"},
     diff_replace |-> {"line", "block", "config"},
     output |-> {"text", "json"}]

\* the lookup table of Cliconf.get_config
ConfigLookup(source) ==
    IF source = "running" THEN <<"show", SP, "configuration", SP, "snapshot">>
    ELSE <<"cat", SP, "working/vcsetup.cfg">>

ConfigSources == {"running", "startup"}

\* the device's answer to one send_command: a text, or AnsibleConnectionFailure
Replies ==
    { [ok |-> TRUE, text |-> <<"up">>],
      [ok |-> TRUE, text |-> <<"{}", SP>>],
      [ok |-> FALSE, text |-> <<"denied">>] }

ValueError(m) == [kind |-> "ValueError", msg |-> m]
Raised(reply) == [kind |-> "AnsibleConnectionFailure", err |-> reply.text]
Returned(v) == [kind |-> "return", value |-> v]

\* send_command(cmd) as the last statement of a method
SendAndReturn(cmd, reply) ==
    [sent |-> <<cmd>>,
     outcome |-> IF reply.ok THEN Returned(reply.text) ELSE Raised(reply)]

\* mutant: the version is never appended
get_command_with_output_unversioned(command, output, version) ==
    IF output \notin get_option_values.output
    THEN [ok |-> FALSE, error |-> ValueError("'output' value is invalid")]
    ELSE [ok |-> TRUE,
          cmd |-> IF output = "json" /\ ~EndsWith(command, PipeJson)
                  THEN command \o <<SP>> \o PipeJson
                  ELSE command]

\* Cliconf._get_command_with_output
get_command_with_output(command, output, version) ==
    IF output \notin get_option_values.output
    THEN [ok |-> FALSE, error |-> ValueError("'output' value is invalid")]
    ELSE LET cmd == IF output = "json" /\ ~EndsWith(command, PipeJson)
                    THEN command \o <<SP>> \o PipeJson
                    ELSE command
         IN [ok |-> TRUE,
             cmd |-> IF version # "latest" /\ Contains(cmd, PipeJson)
                     THEN cmd \o <<SP, "version", SP, version>>
                     ELSE cmd]

\* mutant: the command is sent without cmd.strip()
get_config_unstripped(source, flags, format, reply) ==
    IF format \notin get_option_values.format
    THEN [sent |-> <<>>, outcome |-> ValueError("'format' value is invalid")]
    ELSE IF source \notin ConfigSources
    THEN [sent |-> <<>>, outcome |-> ValueError("fetching configuration is not supported")]
    ELSE SendAndReturn((ConfigLookup(source) \o <<SP>>)
                       \o (IF format # "text" THEN <<"|", SP, format, SP>> ELSE <<>>)
                       \o Join(flags), reply)

\* Cliconf.get_config
get_config(source, flags, format, reply) ==
    IF format \notin get_option_values.format
    THEN [sent |-> <<>>, outcome |-> ValueError("'format' value is invalid")]
    ELSE IF source \notin ConfigSources
    THEN [sent |-> <<>>, outcome |-> ValueError("fetching configuration is not supported")]
    ELSE LET cmd == (ConfigLookup(source) \o <<SP>>)
                    \o (IF format # "text" THEN <<"|", SP, format, SP>> ELSE <<>>)
                    \o Join(flags)
         IN SendAndReturn(Strip(cmd), reply)

\* Cliconf.get
get(command, output, version, reply) ==
    IF output # None
    THEN LET c == get_command_with_output(command, output, version)
         IN IF c.ok THEN SendAndReturn(c.cmd, reply)
            ELSE [sent |-> <<>>, outcome |-> c.error]
    ELSE SendAndReturn(command, reply)

\* json.loads(out), else out.strip()
ParseOut(text) ==
    IF Strip(text) = <<"{}">> THEN [parsed |-> "json", value |-> <<"{}">>]
    ELSE [parsed |-> "text", value |-> Strip(text)]

\* the for loop of Cliconf.run_commands from the i-th command on
RECURSIVE RunCommandsLoop(_, _, _, _, _, _)
RunCommandsLoop(i, cmds, replies, check_rc, sentSoFar, resps) ==
    IF i > Len(cmds) THEN [sent |-> sentSoFar, outcome |-> Returned(resps)]
    ELSE LET cmd == cmds[i]
             c == IF cmd.output # None
                  THEN get_command_with_output(cmd.command, cmd.output, cmd.version)
                  ELSE [ok |-> TRUE, cmd |-> cmd.command]
         IN IF ~c.ok THEN [sent |-> sentSoFar, outcome |-> c.error]
            ELSE IF ~replies[i].ok /\ check_rc
            THEN [sent |-> Append(sentSoFar, c.cmd), outcome |-> Raised(replies[i])]
            ELSE RunCommandsLoop(i + 1, cmds, replies, check_rc,
                                 Append(sentSoFar, c.cmd),
                                 Append(resps, ParseOut(replies[i].text)))

\* mutant: each response is put in front of the earlier ones (responses.insert(0, out))
run_commands_prepending(cmds, check_rc, replies) ==
    IF cmds.isNone
    THEN [sent |-> <<>>, outcome |-> ValueError("'commands' value is required")]
    ELSE LET r == RunCommandsLoop(1, cmds.list, replies, check_rc, <<>>, <<>>)
         IN IF r.outcome.kind # "return" THEN r
            ELSE [sent |-> r.sent,
                  outcome |-> Returned([i \in 1..Len(r.outcome.value) |->
                                 r.outcome.value[Len(r.outcome.value) + 1 - i]])]

\* mutant: a failure is raised whatever check_rc is
run_commands_always_raising(cmds, check_rc, replies) ==
    IF cmds.isNone
    THEN [sent |-> <<>>, outcome |-> ValueError("'commands' value is required")]
    ELSE RunCommandsLoop(1, cmds.list, replies, TRUE, <<>>, <<>>)

\* Cliconf.run_commands
run_commands(cmds, check_rc, replies) ==
    IF cmds.isNone
    THEN [sent |-> <<>>, outcome |-> ValueError("'commands' value is required")]
    ELSE RunCommandsLoop(1, cmds.list, replies, check_rc, <<>>, <<>>)

\* Cliconf.get_diff up to the checks of diff_match and diff_replace
get_diff_checks(diff_match, diff_replace) ==
    IF diff_match \notin get_option_values.diff_match
    THEN [sent |-> <<>>, outcome |-> ValueError("'match' value in invalid")]
    ELSE IF diff_replace \notin get_option_values.diff_replace
    THEN [sent |-> <<>>, outcome |-> ValueError("'replace' value in invalid")]
    ELSE [sent |-> <<>>, outcome |-> [kind |-> "return"]]

\* Cliconf.get_device_operations
get_device_operations ==
    [supports_diff_replace |-> FALSE,
     supports_commit |-> FALSE,
     supports_rollback |-> FALSE,
     supports_defaults |-> FALSE,
     supports_onbox_diff |-> FALSE,
     supports_commit_comment |-> FALSE,
     supports_multiline_delimiter |-> FALSE,
     supports_diff_match |-> FALSE,
     supports_diff_ignore_lines |-> FALSE,
     supports_generate_diff |-> FALSE,
     supports_replace |-> FALSE]

\* ------------------------------------------------------------------ NetworkConfig
\* A configuration text is the sequence of its lines; the configurations of the
\* model are flat (no indented children), so a block is a single line.

\* NetworkConfig(indent=3, contents=text, ignore_lines=patterns).items: the lines
\* of the text without those a pattern matches (a pattern is the line it matches)
NetworkConfigItems(text, ignore_lines) ==
    SelectSeq(text, LAMBDA l : \A i \in 1..Len(ignore_lines) : ignore_lines[i] # l)

\* the lines of ours that are not lines of theirs
DiffLine(ours, theirs) ==
    SelectSeq(ours, LAMBDA l : \A i \in 1..Len(theirs) : theirs[i] # l)

\* the lines of ours that differ from the line of theirs at the same position
RECURSIVE DiffStrictFrom(_, _, _)
DiffStrictFrom(i, ours, theirs) ==
    IF i > Len(ours) THEN <<>>
    ELSE (IF i <= Len(theirs) /\ theirs[i] = ours[i] THEN <<>> ELSE <<ours[i]>>)
         \o DiffStrictFrom(i + 1, ours, theirs)

\* all of ours unless theirs is the same sequence
DiffExact(ours, theirs) == IF ours = theirs THEN <<>> ELSE ours

\* candidate_obj.difference(running_obj, path=None, match=..., replace=...);
\* with flat configurations replace="block" adds no line to the updates
difference(ours, theirs, match, replace) ==
    IF match = "line" THEN DiffLine(ours, theirs)
    ELSE IF match = "strict" THEN DiffStrictFrom(1, ours, theirs)
    ELSE DiffExact(ours, theirs)

\* dumps(objects, "commands"): the texts of the lines, one per line
dumps(items) == items

\* ------------------------------------------------------------------ Cliconf.get_diff
\* mutant: the comparison is skipped only when there is no running configuration
SkipsComparisonNoRunningOnly(running, diff_match, diff_replace) ==
    running.isNone \/ running.lines = <<>>

\* line 224, negated: the else branch returns the candidate's items
SkipsComparison(running, diff_match, diff_replace) ==
    ~(/\ ~running.isNone /\ running.lines # <<>>
      /\ diff_match # "none"
      /\ diff_replace # "config")

\* mutant: the trees are compared the other way round
\* (running_obj.difference(candidate_obj))
get_diff_body_swapped(candidate, running, diff_match, ignore_lines, diff_replace, noneLoad) ==
    IF candidate.isNone /\ noneLoad = "raises"
    THEN [sent |-> <<>>, outcome |-> [kind |-> "LibraryError"]]
    ELSE LET candidate_items ==
                 IF candidate.isNone THEN <<None>>
                 ELSE NetworkConfigItems(candidate.lines, <<>>)
             configdiffobjs ==
                 IF ~(/\ ~running.isNone /\ running.lines # <<>>
                      /\ diff_match # "none"
                      /\ diff_replace # "config")
                 THEN candidate_items
                 ELSE difference(NetworkConfigItems(running.lines, ignore_lines),
                                 candidate_items, diff_match, diff_replace)
         IN [sent |-> <<>>,
             outcome |-> [kind |-> "return", config_diff |-> configdiffobjs]]

\* lines 220-242; candidate_obj.load(None) is the library's: it either raises or
\* reads None as a text (noneLoad)
get_diff_body(candidate, running, diff_match, ignore_lines, diff_replace, noneLoad) ==
    IF candidate.isNone /\ noneLoad = "raises"
    THEN [sent |-> <<>>, outcome |-> [kind |-> "LibraryError"]]
    ELSE LET candidate_items ==
                 IF candidate.isNone THEN <<None>>
                 ELSE NetworkConfigItems(candidate.lines, <<>>)
             configdiffobjs ==
                 IF SkipsComparison(running, diff_match, diff_replace)
                 THEN candidate_items
                 ELSE difference(candidate_items,
                                 NetworkConfigItems(running.lines, ignore_lines),
                                 diff_match, diff_replace)
         IN [sent |-> <<>>,
             outcome |-> [kind |-> "return",
                          config_diff |-> IF configdiffobjs # <<>>
                                          THEN dumps(configdiffobjs) ELSE <<>>]]

\* Cliconf.get_diff
get_diff(candidate, running, diff_match, ignore_lines, diff_replace, noneLoad) ==
    IF candidate.isNone /\ get_device_operations.supports_generate_diff
    THEN [sent |-> <<>>,
          outcome |-> ValueError("candidate configuration is required to generate diff")]
    ELSE LET checks == get_diff_checks(diff_match, diff_replace)
         IN IF checks.outcome.kind = "ValueError" THEN checks
            ELSE get_diff_body(candidate, running, diff_match, ignore_lines,
                               diff_replace, noneLoad)

\* ------------------------------------------------------------------ Cliconf: callers
MaxBatch == 2

FormatArgs == {"text", "json", "xml"}
SourceArgs == {"running", "startup", "candidate"}
FlagArgs == {<<>>, <<<<"all">>>>}
OutputArgs == {None, "text", "json", "xml"}
VersionArgs == {None, "latest", "1"}
CommandArgs ==
    { ShowVlan,
      ShowVlan \o <<SP>> \o PipeJson,
      ShowVlan \o <<SP>> \o PipeJson \o <<SP, "version", SP, "1">> }
MatchArgs == {"line", "strict", "exact", "none", "fuzzy"}
ReplaceArgs == {"line", "block", "config", "merge"}

\* configuration texts: None, or up to MaxLines lines
MaxLines == 2
ConfigLineSet == {"vlan 10", "vlan 20", "vlan 30"}
ConfigArgs ==
    {[isNone |-> TRUE, lines |-> <<>>]}
        \cup {[isNone |-> FALSE, lines |-> l] : l \in SeqsUpTo(ConfigLineSet, MaxLines)}
IgnoreArgs == {<<>>, <<"vlan 20">>}

\* the commands of a run_commands batch
BatchCmdSet ==
    { [command |-> ShowVlan, output |-> None, version |-> None],
      [command |-> ShowVlan, output |-> "text", version |-> "latest"],
      [command |-> ShowVlan, output |-> "json", version |-> "1"],
      [command |-> ShowVlan, output |-> "xml", version |-> "latest"],
      [command |-> ShowLog, output |-> None, version |-> None] }

\* the commands argument of run_commands: None, or a list
BatchArgs ==
    {[isNone |-> TRUE, list |-> <<>>]}
        \cup {[isNone |-> FALSE, list |-> l] : l \in SeqsUpTo(BatchCmdSet, MaxBatch)}

\* the call ends: what it sent and what it returned or raised
Finish(call, r) ==
    /\ cc_call' = call
    /\ cc_sent' = r.sent
    /\ cc_outcome' = r.outcome

CallGetConfig ==
    /\ cc_pc = "idle"
    /\ \E source \in SourceArgs, flags \in FlagArgs, format \in FormatArgs,
          reply \in Replies :
         Finish([op |-> "get_config", source |-> source, flags |-> flags,
                 format |-> format, reply |-> reply],
                get_config(source, flags, format, reply))
    /\ cc_pc' = "returned"
    /\ UNCHANGED <<mainVars, infoVars, cliVars, utilVars>>

CallGet ==
    /\ cc_pc = "idle"
    /\ \E command \in CommandArgs, output \in OutputArgs, version \in VersionArgs,
          reply \in Replies :
         Finish([op |-> "get", command |-> command, output |-> output,
                 version |-> version, reply |-> reply],
                get(command, output, version, reply))
    /\ cc_pc' = "returned"
    /\ UNCHANGED <<mainVars, infoVars, cliVars, utilVars>>

CallRunCommands ==
    /\ cc_pc = "idle"
    /\ \E cmds \in BatchArgs, check_rc \in BOOLEAN :
         \E replies \in [1..Len(cmds.list) -> Replies] :
            Finish([op |-> "run_commands", commands |-> cmds, check_rc |-> check_rc,
                    replies |-> replies],
                   run_commands(cmds, check_rc, replies))
    /\ cc_pc' = "returned"
    /\ UNCHANGED <<mainVars, infoVars, cliVars, utilVars>>

CallGetDiff ==
    /\ cc_pc = "idle"
    /\ \E candidate \in ConfigArgs, running \in ConfigArgs, diff_match \in MatchArgs,
          ignore_lines \in IgnoreArgs, diff_replace \in ReplaceArgs,
          noneLoad \in {"raises", "reads"} :
         Finish([op |-> "get_diff", candidate |-> candidate, running |-> running,
                 diff_match |-> diff_match, diff_ignore_lines |-> ignore_lines,
                 diff_replace |-> diff_replace],
                get_diff(candidate, running, diff_match, ignore_lines, diff_replace,
                         noneLoad))
    /\ cc_pc' = "returned"
    /\ UNCHANGED <<mainVars, infoVars, cliVars, utilVars>>

\* the caller takes the result; the object is ready for the next call
CallEnds ==
    /\ cc_pc = "returned"
    /\ cc_pc' = "idle"
    /\ cc_call' = [op |-> "none"]
    /\ cc_sent' = <<>>
    /\ cc_outcome' = [kind |-> "none"]
    /\ UNCHANGED <<mainVars, infoVars, cliVars, utilVars>>

InitCliconf ==
    /\ CliconfIdle
    /\ InfoIdle
    /\ CliIdle
    /\ UtilsIdle
    /\ pc = "off"
    /\ check_mode = FALSE
    /\ params = [commands |-> <<>>, wait_for |-> <<>>, match |-> "all", retries |-> 0]
    /\ commands = <<>>
    /\ warnings = <<>>
    /\ conditionals = <<>>
    /\ retries = 0
    /\ responses = [bound |-> FALSE, val |-> <<>>]
    /\ sent = <<>>
    /\ history = <<>>
    /\ evaluated = <<>>
    /\ sleeps = 0
    /\ result = NoResult

NextCliconf ==
    \/ CallGetConfig
    \/ CallGet
    \/ CallRunCommands
    \/ CallGetDiff
    \/ CallEnds

SpecCliconf == InitCliconf /\ [][NextCliconf]_vars


\* ------------------------------------------------------------------ Cliconf.get_device_info
ShowMicrocode == <<"show", SP, "microcode">>
ShowSystem == <<"show", SP, "system">>

\* the words of the device's answers and what the regular expressions of
\* get_device_info find in each
VersionWord == "8.9.107.R02"
PathWord == "/flash/working"
ImageWord == "Uos.img"
DescriptionWord == "Description: Alcatel-Lucent OS6860E-P24"
NameWord == "Name: sw1,"

\* \b\d+\.\d+\.\d+\.\w+\b, group 0
VersionRe == [w \in {VersionWord} |-> "8.9.107.R02"]
\* (/[\w/]+), group 1
PathRe == [w \in {PathWord} |-> "/flash/working"]
\* \b(\w+\.\w+)\b, group 1
ImageRe == [w \in {VersionWord, ImageWord} |-> IF w = VersionWord THEN "8.9" ELSE "Uos.img"]
\* Description:\s+.*?(\bOS[\w-]+)\b, group 1
ModelRe == [w \in {DescriptionWord} |-> "OS6860E-P24"]
\* Name:\s+(\S+),?, group 1, then rstrip(',')
HostnameRe == [w \in {NameWord} |-> "sw1,"]
RStripComma(w) == IF w = "sw1," THEN "sw1" ELSE w

\* re.search(re, data): the group of the leftmost match, or None
Search(re, data) ==
    LET hits == {i \in 1..Len(data) : data[i] \in DOMAIN re}
    IN IF hits = {} THEN None
       ELSE re[data[CHOOSE i \in hits : \A j \in hits : i <= j]]

MaxWords == 2
MicrocodeReplies ==
    {[ok |-> TRUE, text |-> t] : t \in SeqsUpTo({VersionWord, PathWord, ImageWord}, MaxWords)}
        \cup {[ok |-> FALSE, text |-> <<"denied">>]}
SystemReplies ==
    {[ok |-> TRUE, text |-> t] : t \in SeqsUpTo({DescriptionWord, NameWord}, MaxWords)}
        \cup {[ok |-> FALSE, text |-> <<"denied">>]}

\* "{path}/{image}".format(path=path, image=image)
PathImage(path, image) == <<path, "/", image>>

\* the body of `if not self._device_info`: both commands, the five searches
get_device_info_uncached(device_info, microcode, system) ==
    LET micro == get(ShowMicrocode, None, None, microcode)
        data == Strip(microcode.text)
        sys == get(ShowSystem, None, None, system)
        info == [network_os |-> "aos",
                 network_os_version |-> Search(VersionRe, data),
                 network_os_image |->
                     IF Search(ImageRe, data) # None
                     THEN PathImage(Search(PathRe, data), Search(ImageRe, data))
                     ELSE <<>>,
                 network_os_model |-> Search(ModelRe, Strip(system.text)),
                 network_os_hostname |->
                     RStripComma(Search(HostnameRe, Strip(system.text)))]
    IN IF micro.outcome.kind # "return"
       THEN [sent |-> micro.sent, outcome |-> micro.outcome, device_info |-> device_info]
       ELSE IF Search(ImageRe, data) # None /\ Search(PathRe, data) = None
       THEN [sent |-> micro.sent, outcome |-> [kind |-> "UnboundLocalError"],
             device_info |-> device_info]
       ELSE IF sys.outcome.kind # "return"
       THEN [sent |-> micro.sent \o sys.sent, outcome |-> sys.outcome,
             device_info |-> device_info]
       ELSE [sent |-> micro.sent \o sys.sent, outcome |-> Returned(info),
             device_info |-> info]

\* Cliconf.get_device_info; path is assigned only when its expression matches, and
\* read whenever the image's matches
get_device_info(device_info, microcode, system) ==
    IF device_info # NoDeviceInfo
    THEN [sent |-> <<>>, outcome |-> Returned(device_info), device_info |-> device_info]
    ELSE get_device_info_uncached(device_info, microcode, system)

MaxInfoCalls == 3

CallGetDeviceInfo ==
    /\ Len(cc_info_history) < MaxInfoCalls
    /\ \E microcode \in MicrocodeReplies, system \in SystemReplies :
         LET r == get_device_info(cc_device_info, microcode, system)
         IN /\ cc_device_info' = r.device_info
            /\ cc_info_history' = Append(cc_info_history,
                                         [sent |-> r.sent, outcome |-> r.outcome])
    /\ UNCHANGED <<mainVars, ccVars, cliVars, utilVars>>

NextDeviceInfo == CallGetDeviceInfo

SpecDeviceInfo == InitCliconf /\ [][NextDeviceInfo]_vars


\* ------------------------------------------------------------------ Cli (module_utils)
ShowConfigurationSnapshot == <<"show", SP, "configuration", SP, "snapshot">>
CheckModeText == <<"check mode is not supported", SP, "without configuration session">>
CheckModeWarning == "AOS can not check config without config session"

\* what the connection answers: a value, or a ConnectionError with its text and,
\* when it has one, its err attribute
CliConfigReplies ==
    { [ok |-> TRUE, text |-> <<"vlan 10">>],
      [ok |-> TRUE, text |-> <<SP, "vlan 20", SP>>],
      [ok |-> FALSE, hasErr |-> FALSE, err |-> <<>>, text |-> <<"timeout">>] }
CliEditReplies ==
    { [ok |-> TRUE, response |-> [session |-> "ansible_1"]],
      [ok |-> FALSE, hasErr |-> FALSE, err |-> <<>>,
       text |-> <<"error:", SP>> \o CheckModeText],
      [ok |-> FALSE, hasErr |-> TRUE, err |-> CheckModeText \o <<SP, "(aos)">>,
       text |-> <<"failed">>],
      [ok |-> FALSE, hasErr |-> TRUE, err |-> <<"denied">>, text |-> CheckModeText],
      [ok |-> FALSE, hasErr |-> FALSE, err |-> <<>>,
       text |-> <<"check mode is not supported">>] }

FailJson(m) == [kind |-> "fail_json", msg |-> m]

\* getattr(exc, "err", to_text(exc))
Message(exc) == IF exc.hasErr THEN exc.err ELSE exc.text

\* mutant: the device is asked whatever the cache holds
Cli_get_config_uncached(device_configs, flags, reply) ==
    LET cmd == Strip((ShowConfigurationSnapshot \o <<SP>>) \o Join(flags))
        call == <<[op |-> "get_config", flags |-> flags, reply |-> reply]>>
    IN IF ~reply.ok
       THEN [transport |-> call, outcome |-> FailJson(reply.text), warned |-> <<>>,
             device_configs |-> device_configs]
       ELSE [transport |-> call, outcome |-> Returned(Strip(reply.text)),
             warned |-> <<>>,
             device_configs |->
                 {e \in device_configs : e.cmd # cmd}
                     \cup {[cmd |-> cmd, cfg |-> Strip(reply.text)]}]

\* Cli.get_config
Cli_get_config(device_configs, flags, reply) ==
    LET cmd == Strip((ShowConfigurationSnapshot \o <<SP>>) \o Join(flags))
        call == <<[op |-> "get_config", flags |-> flags, reply |-> reply]>>
    IN IF \E e \in device_configs : e.cmd = cmd
       THEN [transport |-> <<>>,
             outcome |-> Returned((CHOOSE e \in device_configs : e.cmd = cmd).cfg),
             warned |-> <<>>, device_configs |-> device_configs]
       ELSE IF ~reply.ok
       THEN [transport |-> call, outcome |-> FailJson(reply.text), warned |-> <<>>,
             device_configs |-> device_configs]
       ELSE [transport |-> call, outcome |-> Returned(Strip(reply.text)),
             warned |-> <<>>,
             device_configs |->
                 device_configs \cup {[cmd |-> cmd, cfg |-> Strip(reply.text)]}]

\* the except branch of load_config and get_session_config
OnConnectionError(call, device_configs, exc) ==
    IF Contains(Message(exc), CheckModeText)
    THEN [transport |-> call, outcome |-> Returned([changed |-> TRUE]),
          warned |-> <<CheckModeWarning>>, device_configs |-> device_configs]
    ELSE [transport |-> call, outcome |-> FailJson(Message(exc)), warned |-> <<>>,
          device_configs |-> device_configs]

\* what connection.run_commands answers
CliRunReplies ==
    { [ok |-> TRUE, response |-> <<<<"up">>>>],
      [ok |-> FALSE, hasErr |-> FALSE, err |-> <<>>, text |-> <<"timeout">>] }

\* Cli.run_commands
Cli_run_commands(device_configs, cmds, check_rc, reply) ==
    LET call == <<[op |-> "run_commands", commands |-> cmds, check_rc |-> check_rc,
                   reply |-> reply]>>
    IN IF reply.ok
       THEN [transport |-> call, outcome |-> Returned(reply.response), warned |-> <<>>,
             device_configs |-> device_configs]
       ELSE [transport |-> call, outcome |-> FailJson(reply.text), warned |-> <<>>,
             device_configs |-> device_configs]

\* mutant: a configuration that was loaded empties the cache
Cli_load_config_invalidating(device_configs, cmds, commit, replace, reply) ==
    LET call == <<[op |-> "edit_config", commands |-> cmds, commit |-> commit,
                   replace |-> replace, reply |-> reply]>>
    IN IF reply.ok
       THEN [transport |-> call, outcome |-> Returned(reply.response), warned |-> <<>>,
             device_configs |-> {}]
       ELSE OnConnectionError(call, device_configs, reply)

\* mutant: every connection error is reported with fail_json
Cli_load_config_failing(device_configs, cmds, commit, replace, reply) ==
    LET call == <<[op |-> "edit_config", commands |-> cmds, commit |-> commit,
                   replace |-> replace, reply |-> reply]>>
    IN IF reply.ok
       THEN [transport |-> call, outcome |-> Returned(reply.response), warned |-> <<>>,
             device_configs |-> device_configs]
       ELSE [transport |-> call, outcome |-> FailJson(Message(reply)), warned |-> <<>>,
             device_configs |-> device_configs]

\* Cli.load_config
Cli_load_config(device_configs, cmds, commit, replace, reply) ==
    LET call == <<[op |-> "edit_config", commands |-> cmds, commit |-> commit,
                   replace |-> replace, reply |-> reply]>>
    IN IF reply.ok
       THEN [transport |-> call, outcome |-> Returned(reply.response), warned |-> <<>>,
             device_configs |-> device_configs]
       ELSE OnConnectionError(call, device_configs, reply)

\* Cli.get_session_config
Cli_get_session_config(device_configs, cmds, commit, replace, reply) ==
    LET call == <<[op |-> "get_session_config", commands |-> cmds,
                   commit |-> commit, replace |-> replace, reply |-> reply]>>
    IN IF reply.ok
       THEN [transport |-> call, outcome |-> Returned(reply.response), warned |-> <<>>,
             device_configs |-> device_configs]
       ELSE OnConnectionError(call, device_configs, reply)

MaxCliCalls == 3
CliFlagArgs == {<<>>, <<<<"all">>>>}
CliCommandArgs == {<<"vlan 10">>}

\* fail_json ends the module: no call follows it
CliRunning ==
    /\ Len(cli_history) < MaxCliCalls
    /\ cli_history # <<>> => cli_history[Len(cli_history)].outcome.kind # "fail_json"

\* the call ends: the cache, the warnings and the record of the call
CliFinish(op, flags, r) ==
    /\ cli_device_configs' = r.device_configs
    /\ cli_warnings' = cli_warnings \o r.warned
    /\ cli_history' = Append(cli_history,
                             [op |-> op, flags |-> flags, transport |-> r.transport,
                              outcome |-> r.outcome, warned |-> r.warned,
                              device_configs |-> r.device_configs])

CliGetConfig ==
    /\ CliRunning
    /\ \E flags \in CliFlagArgs, reply \in CliConfigReplies :
         CliFinish("get_config", flags, Cli_get_config(cli_device_configs, flags, reply))
    /\ UNCHANGED <<mainVars, ccVars, infoVars, utilVars>>

CliLoadConfig ==
    /\ CliRunning
    /\ \E cmds \in CliCommandArgs, commit \in BOOLEAN, reply \in CliEditReplies :
         CliFinish("load_config", <<>>,
                   Cli_load_config(cli_device_configs, cmds, commit, FALSE, reply))
    /\ UNCHANGED <<mainVars, ccVars, infoVars, utilVars>>

CliGetSessionConfig ==
    /\ CliRunning
    /\ \E cmds \in CliCommandArgs, commit \in BOOLEAN, reply \in CliEditReplies :
         CliFinish("get_session_config", <<>>,
                   Cli_get_session_config(cli_device_configs, cmds, commit, FALSE,
                                          reply))
    /\ UNCHANGED <<mainVars, ccVars, infoVars, utilVars>>

CliRunCommands ==
    /\ CliRunning
    /\ \E cmds \in {<<ShowVlan>>}, check_rc \in BOOLEAN, reply \in CliRunReplies :
         CliFinish("run_commands", <<>>,
                   Cli_run_commands(cli_device_configs, cmds, check_rc, reply))
    /\ UNCHANGED <<mainVars, ccVars, infoVars, utilVars>>

NextCli ==
    \/ CliGetConfig
    \/ CliRunCommands
    \/ CliLoadConfig
    \/ CliGetSessionConfig

SpecCli == InitCliconf /\ [][NextCli]_vars


\* ------------------------------------------------------------------ utils
\* int(text) of the digit texts of the model
IntOf(t) == IF t = "1" THEN 1 ELSE IF t = "2" THEN 2 ELSE IF t = "3" THEN 3 ELSE 8

\* list.sort(): ascending, equal elements kept
RECURSIVE SortList(_)
SortList(l) ==
    IF l = <<>> THEN <<>>
    ELSE LET i == CHOOSE i \in 1..Len(l) : \A j \in 1..Len(l) : l[i] <= l[j]
         IN <<l[i]>> \o SortList(SubSeq(l, 1, i - 1) \o SubSeq(l, i + 1, Len(l)))

\* set(list) of up to four small integers is a table of eight slots, an integer
\* in the slot of its hash, the integer modulo 8 (no two integers of the model
\* share a slot)
SetTableSize == 8
SlotOf(v) == v % SetTableSize

\* list(set(l)): the elements in the order of their slots
RECURSIVE ListOfSet(_)
ListOfSet(S) ==
    IF S = {} THEN <<>>
    ELSE LET v == CHOOSE v \in S : \A w \in S : SlotOf(v) <= SlotOf(w)
         IN <<v>> \o ListOfSet(S \ {v})

\* as_int_list.sort(); return list(set(as_int_list))
SortedSet(as_int_list) ==
    LET sorted == SortList(as_int_list)
    IN ListOfSet({sorted[i] : i \in 1..Len(sorted)})

\* numerical_sort of a list of digit texts
numerical_sort(string_int_list) ==
    SortedSet([i \in 1..Len(string_int_list) |-> IntOf(string_int_list[i])])

\* str.split(","): the parts of a text between its commas
RECURSIVE SplitComma(_, _)
SplitComma(text, part) ==
    IF text = <<>> THEN <<part>>
    ELSE IF Head(text) = "," THEN <<part>> \o SplitComma(Tail(text), <<>>)
    ELSE SplitComma(Tail(text), Append(part, Head(text)))

\* range(a, b + 1)
RangeList(a, b) == [i \in 1..(IF b >= a THEN b - a + 1 ELSE 0) |-> a + i - 1]

\* the for loop of vlan_range_to_list from the i-th part on
RECURSIVE VlanParts(_, _, _)
VlanParts(i, parts, res) ==
    IF i > Len(parts) \/ parts[i] = <<"none">> THEN res
    ELSE IF \E k \in 1..Len(parts[i]) : parts[i][k] = "-"
    THEN VlanParts(i + 1, parts,
                   res \o RangeList(IntOf(parts[i][1]), IntOf(parts[i][3])))
    ELSE VlanParts(i + 1, parts, Append(res, IntOf(parts[i][1])))

\* vlan_range_to_list: vlans is a text (isStr) or a list of parts; the result is
\* numerical_sort(result), whose int() leaves an integer as it is
vlan_range_to_list(vlans) ==
    IF (vlans.isStr /\ vlans.text = <<>>) \/ (~vlans.isStr /\ vlans.parts = <<>>)
    THEN <<>>
    ELSE SortedSet(VlanParts(1, IF vlans.isStr THEN SplitComma(vlans.text, <<>>)
                                ELSE vlans.parts, <<>>))

MaxParts == 2
DigitTexts == {"1", "2", "3", "8"}
PartSet ==
    {<<d>> : d \in DigitTexts}
        \cup {<<a, "-", b>> : a \in {"1", "2", "3"}, b \in {"1", "2", "3"}}
        \cup {<<"none">>}

\* ",".join(parts)
RECURSIVE JoinComma(_)
JoinComma(parts) ==
    IF parts = <<>> THEN <<>>
    ELSE IF Len(parts) = 1 THEN parts[1]
    ELSE parts[1] \o <<",">> \o JoinComma(Tail(parts))

VlanArgs ==
    {[isStr |-> FALSE, text |-> <<>>, parts |-> p] : p \in SeqsUpTo(PartSet, MaxParts)}
        \cup {[isStr |-> TRUE, text |-> JoinComma(p), parts |-> <<>>] :
                 p \in SeqsUpTo(PartSet, MaxParts)}

CallNumericalSort ==
    /\ ut_pc = "idle"
    /\ \E l \in SeqsUpTo(DigitTexts, MaxParts) :
         /\ ut_call' = [op |-> "numerical_sort", list |-> l]
         /\ ut_result' = numerical_sort(l)
    /\ ut_pc' = "returned"
    /\ UNCHANGED <<mainVars, ccVars, infoVars, cliVars>>

CallVlanRangeToList ==
    /\ ut_pc = "idle"
    /\ \E vlans \in VlanArgs :
         /\ ut_call' = [op |-> "vlan_range_to_list", vlans |-> vlans]
         /\ ut_result' = vlan_range_to_list(vlans)
    /\ ut_pc' = "returned"
    /\ UNCHANGED <<mainVars, ccVars, infoVars, cliVars>>

UtilsEnds ==
    /\ ut_pc = "returned"
    /\ ut_pc' = "idle"
    /\ ut_call' = [op |-> "none"]
    /\ ut_result' = <<>>
    /\ UNCHANGED <<mainVars, ccVars, infoVars, cliVars>>

NextUtils ==
    \/ CallNumericalSort
    \/ CallVlanRangeToList
    \/ UtilsEnds

SpecUtils == InitCliconf /\ [][NextUtils]_vars

\* ------------------------------------------------------------------ history
\* the i-th conditional of wait_for, and whether attempt k made it true
Cond(i) == Conditional(i, params.wait_for[i])
TrueAt(i, k) == Holds(Cond(i), history[k])
TrueBy(i, n) == \E k \in 1..n : TrueAt(i, k)
AllTrueBy(n) == \A i \in 1..Len(params.wait_for) : TrueBy(i, n)

RECURSIVE PendingFrom(_, _)
\* the conditionals from the i-th on that no attempt up to the n-th made true
PendingFrom(i, n) ==
    IF i > Len(params.wait_for) THEN <<>>
    ELSE (IF TrueBy(i, n) THEN <<>> ELSE <<Cond(i)>>) \o PendingFrom(i + 1, n)

RECURSIVE RawsFrom(_, _)
RawsFrom(i, n) ==
    IF i > Len(params.wait_for) THEN <<>>
    ELSE (IF TrueBy(i, n) THEN <<>> ELSE <<params.wait_for[i]>>) \o RawsFrom(i + 1, n)

Started == pc # "parse"
Reported == pc = "done"
TransportError == Len(sent) > Len(history)
Succeeded == Reported /\ result.kind = "exit_json"
Unsatisfied == Reported /\ result.kind = "fail_json" /\ "failed_conditions" \in DOMAIN result

\* ------------------------------------------------------------------ claims

\* C1: with match=all and retries R >= 0, a conditional leaves the pending set at
\* the first attempt whose responses make it true and is not called again; the run
\* succeeds iff every conditional was true in some attempt, and the attempt that
\* empties the pending set is the last one.
C1_MatchAll ==
    (Started /\ params.match = "all" /\ params.retries >= 0) =>
        /\ conditionals = PendingFrom(1, Len(evaluated))
        /\ \A k \in 1..Len(evaluated) :
             evaluated[k] = {i \in 1..Len(params.wait_for) : ~TrueBy(i, k - 1)}
        /\ \A k \in 1..Len(evaluated) : AllTrueBy(k) => k = Len(history) /\ k = Len(sent)
        /\ (Reported /\ ~TransportError) =>
             /\ Succeeded <=> AllTrueBy(Len(history))
             /\ Unsatisfied <=> ~AllTrueBy(Len(history))
             /\ Len(sent) <= params.retries + 1

\* two conditionals, the first true on attempt 1 only, the second on attempt 2 only
C1_Witness ==
    /\ params.match = "all" /\ params.retries = 2
    /\ Len(params.wait_for) = 2
    /\ Succeeded
    /\ Len(sent) = 2
    /\ TrueAt(1, 1) /\ ~TrueAt(1, 2)
    /\ ~TrueAt(2, 1) /\ TrueAt(2, 2)

\* C2: with retries R >= 0 at most R + 1 batches are sent
C2_AtMostRPlusOne ==
    params.retries >= 0 => Len(sent) <= params.retries + 1

C2_Witness ==
    /\ params.retries = 2
    /\ Len(sent) = 3
    /\ Reported

\* C3: on exhaustion the run fails with the fixed message and the raw texts of
\* the pending conditionals in their original order (match=all: those true in no
\* attempt, match=any: the whole list), after exactly R + 1 attempts
C3_Exhausted ==
    /\ Unsatisfied =>
         /\ result.msg = UnsatisfiedMsg
         /\ result.failed_conditions =
              (IF params.match = "all" THEN RawsFrom(1, Len(history)) ELSE params.wait_for)
         /\ result.failed_conditions # <<>>
         /\ params.retries >= 0 => Len(sent) = params.retries + 1 /\ Len(history) = Len(sent)
    /\ (Reported /\ ~TransportError /\ params.wait_for # <<>>
          /\ (IF params.match = "all"
              THEN \E i \in 1..Len(params.wait_for) : ~TrueBy(i, Len(history))
              ELSE \A i \in 1..Len(params.wait_for) : ~TrueBy(i, Len(history))))
       => Unsatisfied

\* match=all, two distinct conditionals, neither ever true, all attempts used
C3_Witness ==
    /\ Unsatisfied
    /\ params.match = "all" /\ params.retries = 1
    /\ Len(result.failed_conditions) = 2
    /\ result.failed_conditions[1] # result.failed_conditions[2]
    /\ Len(sent) = 2

\* C4: with match=any the first attempt in which a conditional is true is the
\* last: the pending set is cleared, nothing more is sent, no sleep follows and
\* the run succeeds with the responses of that attempt
C4_MatchAny ==
    (Started /\ params.match = "any") =>
        \A k \in 1..Len(evaluated) :
            (\E i \in 1..Len(params.wait_for) : TrueAt(i, k)) =>
                /\ k = Len(history) /\ k = Len(sent)
                /\ conditionals = <<>>
                /\ sleeps = k - 1
                /\ pc \in {"after", "done"}
                /\ Reported => Succeeded /\ result.stdout = history[k]

\* two conditionals, only the second true, on the second attempt
C4_Witness ==
    /\ params.match = "any"
    /\ Len(params.wait_for) = 2
    /\ Succeeded
    /\ Len(sent) = 2
    /\ ~TrueAt(1, 1) /\ ~TrueAt(2, 1)
    /\ ~TrueAt(1, 2) /\ TrueAt(2, 2)

\* C5: every attempt sends the whole command list, in order, whatever is pending
C5_WholeBatch ==
    /\ Started => commands = parse_commands(params.commands, check_mode, <<>>).commands
    /\ \A k \in 1..Len(sent) :
         /\ Len(sent[k]) = Len(commands)
         /\ \A j \in 1..Len(commands) :
              /\ sent[k][j].command = commands[j].command
              /\ sent[k][j].version = commands[j].version
              /\ sent[k][j].output = (IF commands[j].output = None THEN "text"
                                      ELSE commands[j].output)
         /\ sent[k] = sent[1]

\* three attempts, each with "clear counters", while the pending set shrank
C5_Witness ==
    /\ Len(sent) = 3
    /\ \A k \in 1..3 : \E j \in 1..Len(sent[k]) : sent[k][j].command = ClearCounters
    /\ Len(params.wait_for) = 2
    /\ Len(conditionals) = 1
    /\ Len(commands) = 2

\* C6: a run that succeeds returns the responses of the latest attempt only, it
\* stops as soon as an attempt leaves nothing pending, and with no wait_for
\* (retries >= 0) exactly one attempt is made
C6_LatestResponses ==
    /\ Succeeded =>
         /\ history # <<>>
         /\ result.stdout = history[Len(history)]
         /\ Len(result.stdout) = Len(commands)
    /\ (Len(evaluated) >= 1 /\ Len(evaluated) = Len(history) /\ conditionals = <<>>) =>
         /\ pc \in {"after", "done"}
         /\ Len(sent) = Len(history)
         /\ Reported => Succeeded
    /\ (Reported /\ ~TransportError /\ params.wait_for = <<>> /\ params.retries >= 0) =>
         Succeeded /\ Len(sent) = 1

\* success on the third attempt, whose responses differ from the earlier ones
C6_Witness ==
    /\ Succeeded
    /\ Len(history) = 3
    /\ history[1] # history[3] /\ history[2] # history[3]
    /\ Len(commands) = 2

\* C7: every run ends in exactly one of three ways: success, unsatisfied
\* conditions, or a transport error
C7_ThreeWays ==
    Reported =>
        \/ Succeeded /\ conditionals = <<>> /\ ~TransportError
        \/ Unsatisfied /\ ~TransportError
        \/ TransportError /\ result.kind = "fail_json" /\ result.msg \in ErrTexts

\* C8: a connection error in attempt k ends the run at once with the error's
\* text: attempt k is not evaluated, no sleep follows, nothing more is sent and
\* neither stdout nor failed_conditions is reported
C8_TransportError ==
    Len(sent) > Len(history) =>
        /\ Reported
        /\ Len(sent) = Len(history) + 1
        /\ result.kind = "fail_json"
        /\ result.msg \in ErrTexts
        /\ DOMAIN result = {"kind", "msg"}
        /\ Len(evaluated) = Len(history)
        /\ sleeps = Len(history)

\* the error strikes on the third attempt
C8_Witness ==
    /\ Reported
    /\ Len(sent) = 3 /\ Len(history) = 2
    /\ result.kind = "fail_json"

\* C9: in check mode parse_commands drops every command that does not start with
\* "show", with one warning each, and keeps the others in order, so no such
\* command is sent; outside check mode the list and the warnings are untouched
C9_CheckMode ==
    Started =>
        /\ check_mode =>
             /\ commands = SelectSeq(params.commands, LAMBDA c : StartsWithShow(c.command))
             /\ warnings = [i \in 1..Len(warnings) |->
                              SelectSeq(params.commands,
                                        LAMBDA c : ~StartsWithShow(c.command))[i].command]
             /\ Len(warnings) = Len(params.commands) - Len(commands)
             /\ \A k \in 1..Len(sent) : \A j \in 1..Len(sent[k]) :
                  StartsWithShow(sent[k][j].command)
        /\ ~check_mode => commands = params.commands /\ warnings = <<>>

\* check mode, "clear counters" twice in a row: both dropped, two warnings
C9_Witness ==
    /\ check_mode
    /\ Started
    /\ Len(params.commands) = 2
    /\ params.commands[1].command = ClearCounters
    /\ params.commands[2].command = ClearCounters
    /\ commands = <<>>
    /\ Len(warnings) = 2
    /\ Len(sent) = 1

\* a call that carries a malformed enumeration value
Malformed(call) ==
    \/ call.op = "get_config"
         /\ (call.format \notin {"text", "json"} \/ call.source \notin {"running", "startup"})
    \/ call.op = "get_diff"
         /\ (call.diff_match \notin {"line", "strict", "exact", "none"}
               \/ call.diff_replace \notin {"line", "block", "config"})
    \/ call.op = "get" /\ call.output \notin {None, "text", "json"}
    \/ call.op = "run_commands"
         /\ \E i \in 1..Len(call.commands.list) :
              call.commands.list[i].output \notin {None, "text", "json"}

\* C10: a call with a malformed enumeration value fails with the invalid-option
\* error and with no transport invocation, also when the invalid output is on a
\* later command of a run_commands batch
C10_InvalidOptionFirst ==
    (cc_pc = "returned" /\ Malformed(cc_call)) =>
        cc_outcome.kind = "ValueError" /\ cc_sent = <<>>

\* ------------------------------------------------------------------ claims of get_diff
GetDiffDone == cc_pc = "returned" /\ cc_call.op = "get_diff"
ValidDiffOptions ==
    /\ cc_call.diff_match \in {"line", "strict", "exact", "none"}
    /\ cc_call.diff_replace \in {"line", "block", "config"}

\* C11: get_diff without a candidate fails with the error that a candidate
\* configuration is required, whatever diff_match, diff_replace and running are,
\* and returns no diff
C11_CandidateRequired ==
    (GetDiffDone /\ ValidDiffOptions /\ cc_call.candidate.isNone) =>
        cc_outcome = ValueError("candidate configuration is required to generate diff")

\* C12: with diff_replace = "config" the result is the whole candidate, line by
\* line in the candidate's order, whatever the running configuration is; so it is
\* with diff_match = "none" and with an absent or empty running configuration
C12_FullCandidate ==
    (/\ GetDiffDone /\ ValidDiffOptions /\ ~cc_call.candidate.isNone
     /\ \/ cc_call.diff_replace = "config"
        \/ cc_call.diff_match = "none"
        \/ cc_call.running.isNone
        \/ cc_call.running.lines = <<>>) =>
        /\ cc_outcome.kind = "return"
        /\ cc_outcome.config_diff = cc_call.candidate.lines

C12_Witness ==
    /\ GetDiffDone
    /\ cc_call.diff_replace = "config" /\ cc_call.diff_match = "line"
    /\ ~cc_call.candidate.isNone /\ Len(cc_call.candidate.lines) = 2
    /\ cc_call.running = cc_call.candidate
    /\ cc_outcome.kind = "return"
    /\ cc_outcome.config_diff = cc_call.candidate.lines

\* C13: a candidate diffed against itself as the running configuration gives an
\* empty config_diff for every valid diff_match and diff_replace and every
\* diff_ignore_lines, except that diff_replace = "config" gives the whole candidate
C13_SelfDiffEmpty ==
    (/\ GetDiffDone /\ ValidDiffOptions /\ ~cc_call.candidate.isNone
     /\ cc_call.running = cc_call.candidate) =>
        /\ cc_outcome.kind = "return"
        /\ cc_outcome.config_diff =
               IF cc_call.diff_replace = "config" THEN cc_call.candidate.lines
               ELSE <<>>

\* C14: a candidate line that a diff_ignore_lines pattern matches is never a line
\* of config_diff
C14_IgnoredNeverInDiff ==
    (GetDiffDone /\ ValidDiffOptions /\ cc_outcome.kind = "return") =>
        \A i \in 1..Len(cc_outcome.config_diff) :
            \A j \in 1..Len(cc_call.diff_ignore_lines) :
                cc_outcome.config_diff[i] # cc_call.diff_ignore_lines[j]

\* ------------------------------------------------------------------ claims of get, run_commands, get_config
VersionSuffix(version) == <<SP, "version", SP, version>>

\* C17: with output = "json" and a command that does not end in "| json" the
\* command sent is the command followed by " | json"; a version other than
\* "latest" is appended as " version <v>" after "| json"; a command that ends in
\* "| json" gets no second one; with output = "text" and version = "latest" the
\* command is sent unchanged; what is sent is that one command text
C17_OutputSuffix ==
    (cc_pc = "returned" /\ cc_call.op = "get" /\ cc_call.output \in {"text", "json"}) =>
        LET command == cc_call.command
            json == command \o <<SP>> \o PipeJson
        IN /\ Len(cc_sent) = 1
           /\ (cc_call.output = "json" /\ ~EndsWith(command, PipeJson)) =>
                  /\ Len(cc_sent[1]) >= Len(json)
                  /\ SubSeq(cc_sent[1], 1, Len(json)) = json
           /\ (cc_call.output = "json" /\ EndsWith(command, PipeJson)) =>
                  /\ Len(cc_sent[1]) >= Len(command)
                  /\ SubSeq(cc_sent[1], 1, Len(command)) = command
                  /\ ~Contains(SubSeq(cc_sent[1], Len(command) + 1, Len(cc_sent[1])),
                               PipeJson)
           /\ (cc_call.output = "json" /\ cc_call.version # "latest") =>
                  EndsWith(cc_sent[1], PipeJson \o VersionSuffix(cc_call.version))
           /\ (cc_call.output = "json" /\ cc_call.version = "latest") =>
                  EndsWith(cc_sent[1], PipeJson)
           /\ (cc_call.output = "text" /\ cc_call.version = "latest") =>
                  cc_sent[1] = command

C17_Witness ==
    /\ cc_pc = "returned" /\ cc_call.op = "get"
    /\ cc_call.output = "json" /\ cc_call.version = "1" /\ cc_call.command = ShowVlan
    /\ cc_sent = <<ShowVlan \o <<SP>> \o PipeJson \o VersionSuffix("1")>>

\* the i-th reply of the device is a failure
FailsAt(i) == ~cc_call.replies[i].ok
RunCommandsDone ==
    /\ cc_pc = "returned" /\ cc_call.op = "run_commands"
    /\ ~cc_call.commands.isNone
    /\ \A i \in 1..Len(cc_call.commands.list) :
           cc_call.commands.list[i].output \in {None, "text", "json"}

\* C18: with check_rc true run_commands raises the first failure and sends no
\* later command; with check_rc false the error text of a failing command is the
\* response at its position and every command of the batch is sent, in order
C18_CheckRc ==
    RunCommandsDone =>
        LET list == cc_call.commands.list
            failing == {i \in 1..Len(list) : FailsAt(i)}
        IN IF cc_call.check_rc /\ failing # {}
           THEN \E k \in failing :
                   /\ \A i \in failing : k <= i
                   /\ cc_outcome = Raised(cc_call.replies[k])
                   /\ Len(cc_sent) = k
           ELSE /\ cc_outcome.kind = "return"
                /\ Len(cc_outcome.value) = Len(list)
                /\ Len(cc_sent) = Len(list)
                /\ \A i \in 1..Len(list) :
                       /\ Len(cc_sent[i]) >= Len(list[i].command)
                       /\ SubSeq(cc_sent[i], 1, Len(list[i].command)) = list[i].command
                /\ \A i \in failing :
                       cc_outcome.value[i] =
                           [parsed |-> "text", value |-> cc_call.replies[i].text]

C18_Witness ==
    /\ RunCommandsDone
    /\ ~cc_call.check_rc
    /\ Len(cc_call.commands.list) = 2
    /\ FailsAt(1) /\ ~FailsAt(2)
    /\ Len(cc_sent) = 2
    /\ cc_outcome.kind = "return"
    /\ cc_outcome.value[1] = [parsed |-> "text", value |-> <<"denied">>]

GetConfigDone ==
    cc_pc = "returned" /\ cc_call.op = "get_config" /\ cc_call.format \in {"text", "json"}

\* what get_config sends, whatever it returns
GetConfigSends ==
    IF cc_call.source \notin {"running", "startup"}
    THEN cc_outcome.kind = "ValueError" /\ cc_sent = <<>>
    ELSE /\ Len(cc_sent) = 1
         /\ (cc_call.flags = <<>> /\ cc_call.format = "text") =>
                cc_sent[1] = IF cc_call.source = "running"
                             THEN <<"show", SP, "configuration", SP, "snapshot">>
                             ELSE <<"cat", SP, "working/vcsetup.cfg">>

\* C20: get_config sends "show configuration snapshot" for running and
\* "cat working/vcsetup.cfg" for startup, fails for any other source, sends one
\* command per call, sends the bare command for empty flags and text format, and
\* returns the transport's text without its trailing whitespace
C20_GetConfig ==
    GetConfigDone =>
        /\ GetConfigSends
        /\ (cc_call.source \in {"running", "startup"} /\ cc_call.reply.ok) =>
               cc_outcome = Returned(RStrip(cc_call.reply.text))

\* C20 amended: as C20, but the transport's text is returned as it is
C20_GetConfigVerbatim ==
    GetConfigDone =>
        /\ GetConfigSends
        /\ (cc_call.source \in {"running", "startup"} /\ cc_call.reply.ok) =>
               cc_outcome = Returned(cc_call.reply.text)

C20_Witness ==
    /\ GetConfigDone
    /\ cc_call.source = "startup" /\ cc_call.flags = <<>> /\ cc_call.format = "text"
    /\ cc_call.reply = [ok |-> TRUE, text |-> <<"{}", SP>>]
    /\ cc_sent = <<(<<"cat", SP, "working/vcsetup.cfg">>)>>
    /\ cc_outcome = Returned(<<"{}", SP>>)

\* ------------------------------------------------------------------ claims of get_device_info
RECURSIVE InfoSentFrom(_)
InfoSentFrom(i) ==
    IF i > Len(cc_info_history) THEN <<>>
    ELSE cc_info_history[i].sent \o InfoSentFrom(i + 1)

DeviceAnswered ==
    \A i \in 1..Len(cc_info_history) :
        cc_info_history[i].outcome.kind # "AnsibleConnectionFailure"

\* C16: over the get_device_info calls of one connection, with a device that
\* answers, "show microcode" and "show system" are each sent once, by the first
\* call and in that order, and every call returns the same mapping
C16_DeviceInfoOnce ==
    (cc_info_history # <<>> /\ DeviceAnswered) =>
        /\ InfoSentFrom(1) = <<ShowMicrocode, ShowSystem>>
        /\ cc_info_history[1].sent = <<ShowMicrocode, ShowSystem>>
        /\ \A i \in 1..Len(cc_info_history) :
               /\ cc_info_history[i].outcome.kind = "return"
               /\ cc_info_history[i].outcome = cc_info_history[1].outcome

\* ------------------------------------------------------------------ claims of Cli
CliGetConfigAt(i) == cli_history[i].op = "get_config"
CacheBefore(i) == IF i = 1 THEN {} ELSE cli_history[i - 1].device_configs
\* the i-th call asked the device for the configuration and got it
FetchedAt(i) ==
    /\ CliGetConfigAt(i)
    /\ cli_history[i].transport # <<>>
    /\ cli_history[i].outcome.kind = "return"

\* C15: over the get_config calls of one Cli the device is asked at most once
\* per flag list that succeeded, a later call with the same flags returns the
\* same text without asking the device, and a call that fails with a connection
\* error leaves the cache as it was
C15_ConfigCache ==
    \A i \in 1..Len(cli_history) :
        CliGetConfigAt(i) =>
            /\ Len(cli_history[i].transport) <= 1
            /\ \A j \in 1..(i - 1) :
                   (FetchedAt(j) /\ cli_history[j].flags = cli_history[i].flags) =>
                       /\ cli_history[i].transport = <<>>
                       /\ cli_history[i].outcome = cli_history[j].outcome
            /\ cli_history[i].outcome.kind = "fail_json" =>
                   cli_history[i].device_configs = CacheBefore(i)

C15_Witness ==
    /\ Len(cli_history) = 3
    /\ FetchedAt(1) /\ cli_history[1].flags = <<<<"all">>>>
    /\ FetchedAt(2) /\ cli_history[2].flags = <<>>
    /\ cli_history[2].outcome # cli_history[1].outcome
    /\ CliGetConfigAt(3) /\ cli_history[3].flags = <<<<"all">>>>
    /\ cli_history[3].transport = <<>>
    /\ cli_history[3].outcome = cli_history[1].outcome

SessionCallAt(i) == cli_history[i].op \in {"load_config", "get_session_config"}
\* the connection error the i-th call got, and its message
ErrorAt(i) == cli_history[i].transport[1].reply
MessageAt(i) == IF ErrorAt(i).hasErr THEN ErrorAt(i).err ELSE ErrorAt(i).text

\* C19: when the device answers load_config or get_session_config with a
\* connection error whose message contains "check mode is not supported without
\* configuration session", the call gives exactly one warning and returns
\* {changed: True}; on any other connection error it reports fail_json with the
\* message, gives no warning and returns nothing
C19_CheckModeDowngrade ==
    \A i \in 1..Len(cli_history) :
        (SessionCallAt(i) /\ ~ErrorAt(i).ok) =>
            IF Contains(MessageAt(i), CheckModeText)
            THEN /\ cli_history[i].warned = <<CheckModeWarning>>
                 /\ cli_history[i].outcome = Returned([changed |-> TRUE])
            ELSE /\ cli_history[i].warned = <<>>
                 /\ cli_history[i].outcome = FailJson(MessageAt(i))

C19_Witness ==
    /\ Len(cli_history) = 2
    /\ cli_history[1].op = "get_session_config"
    /\ ~ErrorAt(1).ok /\ ErrorAt(1).hasErr
    /\ cli_history[1].outcome = Returned([changed |-> TRUE])
    /\ cli_history[2].op = "load_config"
    /\ ~ErrorAt(2).ok /\ ErrorAt(2).text = <<"check mode is not supported">>
    /\ cli_history[2].outcome.kind = "fail_json"
    /\ cli_warnings = <<CheckModeWarning>>

\* ------------------------------------------------------------------ claims of the retry loop, continued

\* C21: a run that exhausts retries = R sleeps R times, once between consecutive
\* attempts, and reports the failure after the last attempt without sleeping again
C21_SleepsBetweenAttempts ==
    /\ (Unsatisfied /\ params.retries >= 0) => sleeps = params.retries
    /\ sleeps <= Len(sent)
    /\ Len(sent) >= 1 => sleeps <= Len(sent) - 1

\* C22: with match=all a run that succeeds returns as stdout responses that make
\* every listed conditional true
C22_Simultaneous ==
    (Succeeded /\ params.match = "all") =>
        \A i \in 1..Len(params.wait_for) : Holds(Cond(i), result.stdout)

\* C22 amended: with match=all a run that succeeds has seen every listed
\* conditional true in some attempt, not necessarily the same one; stdout is the
\* last attempt's responses, which make true the conditionals still pending then
C22_EachTrueInSomeAttempt ==
    (Succeeded /\ params.match = "all") =>
        /\ \A i \in 1..Len(params.wait_for) : TrueBy(i, Len(history))
        /\ result.stdout = history[Len(history)]
        /\ Len(evaluated) = Len(history)
        /\ \A i \in evaluated[Len(evaluated)] : Holds(Cond(i), result.stdout)

\* a success whose stdout does not make the first conditional true
C22_Witness ==
    /\ Succeeded
    /\ params.match = "all"
    /\ Len(params.wait_for) = 2
    /\ Len(history) = 2
    /\ TrueAt(1, 1)
    /\ ~Holds(Cond(1), result.stdout)
    /\ Holds(Cond(2), result.stdout)

\* C27: whatever integer retries is, negative values included, a run without a
\* transport error sends at least one batch and ends either in success with that
\* batch's responses or in unsatisfied conditions
C27_AnyRetries ==
    (Reported /\ ~TransportError) =>
        /\ Len(sent) >= 1
        /\ \/ Succeeded /\ result.stdout = history[Len(history)]
           \/ Unsatisfied

HasMalformed == \E i \in 1..Len(params.wait_for) : ConditionalError(params.wait_for[i]) # None

\* C24: the wait_for expressions are parsed before the first batch: with a
\* malformed expression the module fails and nothing is sent to the device
C24_ParsedBeforeFirstBatch ==
    /\ (HasMalformed /\ Started) =>
         /\ Reported
         /\ sent = <<>> /\ history = <<>> /\ sleeps = 0
         /\ result.kind \in {"fail_json", "ValueError"}
         /\ result.kind = "fail_json" => result.msg = UnknownOperatorMsg
    /\ sent # <<>> => Len(conditionals) <= Len(params.wait_for) /\ ~HasMalformed

C24_Witness ==
    /\ Reported
    /\ Len(params.wait_for) = 2
    /\ ConditionalError(params.wait_for[1]) = None
    /\ ConditionalError(params.wait_for[2]) = "AttributeError"
    /\ Len(commands) = 2
    /\ sent = <<>>
    /\ result = [kind |-> "fail_json", msg |-> UnknownOperatorMsg]

\* what run_commands makes of the device's answer: parsed JSON, stripped text, or
\* the text of the error
ResponseTo(reply) ==
    IF reply = [ok |-> TRUE, text |-> <<"{}", SP>>] THEN [parsed |-> "json", value |-> <<"{}">>]
    ELSE IF reply = [ok |-> TRUE, text |-> <<"up">>] THEN [parsed |-> "text", value |-> <<"up">>]
    ELSE [parsed |-> "text", value |-> <<"denied">>]

\* C23: run_commands sends the commands one by one in list order, and when it
\* returns the responses are as many as the commands, the i-th response being the
\* device's answer to the i-th command: parsed JSON, stripped text or error text
C23_Positional ==
    (cc_pc = "returned" /\ cc_call.op = "run_commands" /\ cc_outcome.kind = "return") =>
        LET list == cc_call.commands.list
        IN /\ Len(cc_sent) = Len(list)
           /\ Len(cc_outcome.value) = Len(list)
           /\ \A i \in 1..Len(list) :
                  /\ cc_outcome.value[i] = ResponseTo(cc_call.replies[i])
                  /\ cc_sent[i] =
                         IF list[i].output = "json"
                         THEN list[i].command \o <<SP>> \o PipeJson
                                  \o <<SP, "version", SP, list[i].version>>
                         ELSE list[i].command

C23_Witness ==
    /\ cc_pc = "returned" /\ cc_call.op = "run_commands"
    /\ cc_outcome.kind = "return"
    /\ Len(cc_call.commands.list) = 2
    /\ cc_call.commands.list[1].command = ShowLog
    /\ cc_call.commands.list[2].output = "json"
    /\ ~cc_call.replies[1].ok
    /\ cc_outcome.value = <<[parsed |-> "text", value |-> <<"denied">>],
                            [parsed |-> "json", value |-> <<"{}">>]>>
    /\ cc_sent[1] = ShowLog

\* sub is a subsequence of full: its lines are lines of full, in full's order
RECURSIVE IsSubsequence(_, _)
IsSubsequence(sub, full) ==
    IF sub = <<>> THEN TRUE
    ELSE IF full = <<>> THEN FALSE
    ELSE IF Head(sub) = Head(full) THEN IsSubsequence(Tail(sub), Tail(full))
    ELSE IsSubsequence(sub, Tail(full))

\* C25: for every diff_match and diff_replace the lines of config_diff are a
\* subsequence of the candidate's lines, in the candidate's order, and none of
\* them is a line of the running configuration only
C25_DiffWithinCandidate ==
    (GetDiffDone /\ ValidDiffOptions /\ ~cc_call.candidate.isNone) =>
        /\ cc_outcome.kind = "return"
        /\ IsSubsequence(cc_outcome.config_diff, cc_call.candidate.lines)
        /\ \A i \in 1..Len(cc_outcome.config_diff) :
               \E j \in 1..Len(cc_call.candidate.lines) :
                   cc_call.candidate.lines[j] = cc_outcome.config_diff[i]

\* a diff that keeps the second of two candidate lines, the running
\* configuration holding a line of its own
C25_Witness ==
    /\ GetDiffDone
    /\ cc_call.diff_match = "line" /\ cc_call.diff_replace = "line"
    /\ cc_call.candidate = [isNone |-> FALSE, lines |-> <<"vlan 10", "vlan 20">>]
    /\ cc_call.running = [isNone |-> FALSE, lines |-> <<"vlan 30", "vlan 10">>]
    /\ cc_call.diff_ignore_lines = <<>>
    /\ cc_outcome = [kind |-> "return", config_diff |-> <<"vlan 20">>]

\* the number of places where sub occurs in t
Occurrences(t, sub) ==
    Cardinality({i \in 1..(Len(t) - Len(sub) + 1) : SubSeq(t, i, i + Len(sub) - 1) = sub})

\* C29: the command _get_command_with_output produces never holds "| json"
\* twice, and applying the function to its own result, with the same output and
\* version, gives that result again
C29_NoSecondJson ==
    (cc_pc = "returned" /\ cc_call.op = "get" /\ cc_call.output \in {"text", "json"}) =>
        /\ Occurrences(cc_sent[1], PipeJson) <= 1
        /\ get_command_with_output(cc_sent[1], cc_call.output, cc_call.version).cmd
               = cc_sent[1]

\* C28: load_config, get_session_config and run_commands leave the cache of
\* Cli as it was: a get_config after a successful load_config returns the text
\* cached before, without asking the device
C28_CacheFrame ==
    \A i \in 1..Len(cli_history) :
        /\ cli_history[i].op \in {"load_config", "get_session_config", "run_commands"} =>
               cli_history[i].device_configs = CacheBefore(i)
        /\ \A j \in 1..(i - 1) : \A k \in (j + 1)..(i - 1) :
               (/\ FetchedAt(j)
                /\ cli_history[k].op = "load_config"
                /\ cli_history[k].outcome.kind = "return"
                /\ CliGetConfigAt(i)
                /\ cli_history[i].flags = cli_history[j].flags) =>
                   /\ cli_history[i].transport = <<>>
                   /\ cli_history[i].outcome = cli_history[j].outcome

C28_Witness ==
    /\ Len(cli_history) = 3
    /\ FetchedAt(1)
    /\ cli_history[2].op = "load_config"
    /\ cli_history[2].outcome = Returned([session |-> "ansible_1"])
    /\ CliGetConfigAt(3) /\ cli_history[3].flags = cli_history[1].flags
    /\ cli_history[3].transport = <<>>
    /\ cli_history[3].outcome = cli_history[1].outcome
    /\ cli_device_configs = cli_history[1].device_configs

\* C30: whatever the device answers to the two commands, get_device_info ends
\* without error and returns a mapping with network_os = "aos"
C30_DeviceInfoCompletes ==
    \A i \in 1..Len(cc_info_history) :
        cc_info_history[i].outcome.kind # "AnsibleConnectionFailure" =>
            /\ cc_info_history[i].outcome.kind = "return"
            /\ cc_info_history[i].outcome.value.network_os = "aos"

\* ------------------------------------------------------------------ claims of utils
\* C26: numerical_sort and vlan_range_to_list return their integers in strictly
\* ascending order, none twice
C26_Ascending ==
    ut_pc = "returned" =>
        \A i \in 1..(Len(ut_result) - 1) : ut_result[i] < ut_result[i + 1]

====
